---------------------------- MODULE Spec2Model ----------------------------
(***************************************************************************)
(* A model of plugins/bap/utils/bap_taint.py: the taint-propagation        *)
(* session builder (PropagateTaint.__init__), the plugin's start/finish    *)
(* handlers (BapTaint.start, BapTaint.finish) and the process-wide         *)
(* callback registry (BapTaint._callbacks, _do_callbacks,                  *)
(* install_callback).                                                      *)
(*                                                                         *)
(* Python values are modelled as follows.  A str is a TLA+ string, a list  *)
(* a sequence.  A value that may be None is wrapped: << >> is None and     *)
(* <<v>> is the value v.  The base class BapIda (bap.utils.run) supplies   *)
(* tmpfile, args, on_finish and run; its part is modelled from the         *)
(* specification's Temporary Artifact Manager (section 4.2).               *)
(***************************************************************************)
EXTENDS Integers, Sequences, FiniteSets, TLC

(***************************************************************************)
(* Bounds of the model.                                                    *)
(***************************************************************************)
MaxSessions == 2
MaxInstalls == 2
MaxBuilds == 1
MaxLifeInstalls == 1

(***************************************************************************)
(* Inputs.                                                                 *)
(***************************************************************************)
\* Addresses the cursor can be at (0x1A and 0x401000).
Addrs == {26, 4198400}
\* Callback functions external code may install.
CB == {"f", "g"}
\* ptr_or_reg arguments a caller may pass to install_callback.
InstallKinds == {<< >>, <<"ptr">>, <<"reg">>, <<"bogus">>}
Kinds == {"ptr", "reg"}
\* Answers to the engine prompt (idaapi.askstr): cancelled, empty, and
\* three strings.
EngineAnswers == {<< >>, <<"">>, <<"primus">>, <<"legacy">>, <<"Primus">>}
\* Answers to the depth prompt (idaapi.asklong): cancelled, zero, and three
\* numbers.
DepthAnswers == {<< >>, <<0>>, <<7>>, <<4096>>, <<-1>>}
\* Whether the generated script exists when the engine signals completion.
ScriptExists == BOOLEAN

\* The inputs of the session lifecycle (Spec): every session is built with
\* both prompts cancelled, and the registry holds installations of f.
LifeCB == {"f"}
LifeInstallKinds == {<< >>}
LifeEngineAnswers == {<< >>}
LifeDepthAnswers == {<< >>}

\* The inputs of the registry (SpecRegistry): the cursor stays where it is
\* and the generated script exists.
RegEngineAnswers == {<<"legacy">>}
RegDepthAnswers == {<<7>>}
RegScriptExists == {TRUE}

(***************************************************************************)
(* Module constants of bap_taint.py.                                       *)
(***************************************************************************)
patterns ==
    << <<"true", "gray">>,
       <<"is-visited", "white">>,
       <<"has-taints", "red">>,
       <<"taints", "yellow">> >>

ENGINE == "primus"
DEPTH == 4096
LOOP_DEPTH == 64

(***************************************************************************)
(* Python string formatting.                                               *)
(***************************************************************************)
Digit(d) == SubSeq("0123456789ABCDEF", d + 1, d + 1)

RECURSIVE NatStr(_, _)
\* The digits of the natural number n in the given base, most significant
\* first, upper-case.
NatStr(n, base) ==
    IF n < base THEN Digit(n)
    ELSE NatStr(n \div base, base) \o Digit(n % base)

\* '{:X}'.format(n)
FormatX(n) == IF n < 0 THEN "-" \o NatStr(-n, 16) ELSE NatStr(n, 16)

\* '{}'.format(n) for an integer n
FormatD(n) == IF n < 0 THEN "-" \o NatStr(-n, 10) ELSE NatStr(n, 10)

RECURSIVE Join(_, _)
\* sep.join(parts)
Join(sep, parts) ==
    IF parts = << >> THEN ""
    ELSE IF Len(parts) = 1 THEN parts[1]
    ELSE parts[1] \o sep \o Join(sep, Tail(parts))

\* `or` that replaces None alone.
OrStrNoneOnly(answer, default) ==
    IF answer = << >> THEN default ELSE answer[1]

\* Python's `answer or default` on a wrapped str answer: None and '' are
\* falsy.
OrStr(answer, default) ==
    IF answer = << >> THEN default
    ELSE IF answer[1] = "" THEN default
    ELSE answer[1]

\* Python's `answer or default` on a wrapped integer answer: None and 0 are
\* falsy.
OrInt(answer, default) ==
    IF answer = << >> THEN default
    ELSE IF answer[1] = 0 THEN default
    ELSE answer[1]

(***************************************************************************)
(* The host (IDA).                                                         *)
(***************************************************************************)
\* idc.GetFunctionName(addr): the name of the function holding addr.
GetFunctionName(addr) == IF addr = 26 THEN "main" ELSE "sub_401000"

(***************************************************************************)
(* BapIda, the base class of PropagateTaint.                               *)
(***************************************************************************)
\* self.args as BapIda.__init__ leaves it.
BapIdaArgs == << >>

\* self.tmpfile(suffix), the n-th file the process allocates: the path of a
\* uniquely named file.
tmpfile(n, suffix) == "tmp" \o FormatD(n) \o "." \o suffix

(***************************************************************************)
(* PropagateTaint.__init__(addr, kind) with the two prompts' answers, as   *)
(* the n files before it have been allocated.  The result holds the        *)
(* object's fields and the locals of the constructor.                      *)
(***************************************************************************)
RECURSIVE SchemeTextReversed(_)
\* The rules written last to first.
SchemeTextReversed(pats) ==
    IF pats = << >> THEN ""
    ELSE SchemeTextReversed(Tail(pats))
         \o "((" \o pats[1][1] \o ") (color " \o pats[1][2] \o "))\n"

RECURSIVE SchemeText(_)
\* What the loop over patterns writes to the scheme file.
SchemeText(pats) ==
    IF pats = << >> THEN ""
    ELSE "((" \o pats[1][1] \o ") (color " \o pats[1][2] \o "))\n"
         \o SchemeText(Tail(pats))

PrimusArgs(name, depth, loop_depth, stdin, stdout) ==
    << "--run-entry-points=" \o name,
       "--primus-limit-max-length=" \o FormatD(depth),
       "--primus-limit-max-visited=" \o FormatD(loop_depth),
       "--primus-promiscuous-mode",
       "--primus-greedy-scheduler",
       "--primus-propagate-taint-from-attributes",
       "--primus-propagate-taint-to-attributes",
       "--primus-lisp-channel-redirect=<stdin>:" \o stdin
           \o ",<stdout>:" \o stdout >>

\* The pass chosen the wrong way round.
PropagateSwapped(engine) ==
    IF engine = "primus" THEN "propagate-taint" ELSE "run"

Propagate(engine) == IF engine = "primus" THEN "run" ELSE "propagate-taint"

Passes(engine) == <<"taint", Propagate(engine), "map-terms", "emit-ida-script">>

\* The address formatted in decimal.
TaintArgsDecimal(addr, kind) == << "--taint-" \o kind, "0x" \o FormatD(addr) >>

TaintArgs(addr, kind) == << "--taint-" \o kind, "0x" \o FormatX(addr) >>

BaseArgs(addr, kind, passes, scheme, script) ==
    TaintArgs(addr, kind) \o
    << "--passes", Join(",", passes),
       "--map-terms-using", scheme,
       "--emit-ida-script-attr", "color",
       "--emit-ida-script-file", script >>

\* The Primus arguments appended whatever the engine.
EngineArgsAlways(engine, name, depth, loop_depth, stdin, stdout) ==
    PrimusArgs(name, depth, loop_depth, stdin, stdout)

EngineArgs(engine, name, depth, loop_depth, stdin, stdout) ==
    IF engine = "primus"
    THEN PrimusArgs(name, depth, loop_depth, stdin, stdout)
    ELSE << >>

\* The constructor with one file serving as both channels.
ArtifactsSharedChannel(n) ==
    [ script |-> tmpfile(n + 1, "py"),
      scheme |-> tmpfile(n + 2, "scm"),
      stdin  |-> tmpfile(n + 3, "stdin"),
      stdout |-> tmpfile(n + 3, "stdin") ]

\* The four temporary files in the order the constructor allocates them.
Artifacts(n) ==
    [ script |-> tmpfile(n + 1, "py"),
      scheme |-> tmpfile(n + 2, "scm"),
      stdin  |-> tmpfile(n + 3, "stdin"),
      stdout |-> tmpfile(n + 4, "stdout") ]

PropagateTaint(addr, kind, engineAns, depthAns, n) ==
    LET engine == OrStr(engineAns, ENGINE)
        depth == OrInt(depthAns, DEPTH)
        loop_depth == LOOP_DEPTH
        passes == Passes(engine)
        files == Artifacts(n)
        name == GetFunctionName(addr)
    IN  [ addr |-> addr,
          kind |-> kind,
          askstr |-> engineAns,
          asklong |-> depthAns,
          engine |-> engine,
          depth |-> depth,
          loop_depth |-> loop_depth,
          action |-> "propagating taint from "
                       \o (IF kind = "ptr" THEN "*" ELSE "")
                       \o "0x" \o FormatX(addr),
          passes |-> passes,
          script |-> files.script,
          scheme |-> files.scheme,
          stdin |-> files.stdin,
          stdout |-> files.stdout,
          schemeText |-> SchemeText(patterns),
          name |-> name,
          args |-> BapIdaArgs
                   \o BaseArgs(addr, kind, passes, files.scheme, files.script)
                   \o EngineArgs(engine, name, depth, loop_depth,
                                 files.stdin, files.stdout) ]

\* What the constructor does, in the order of its statements.
ConstructorSteps(engine) ==
    << "disable_script_timeout", "askstr", "asklong", "passes",
       "tmpfile py", "tmpfile scm", "tmpfile stdin", "tmpfile stdout" >>
    \o [j \in 1..Len(patterns) |-> "scheme.write"]
    \o << "scheme.close", "GetFunctionName", "args" >>
    \o (IF engine = "primus" THEN << "args primus" >> ELSE << >>)

\* The position of the k-th tmpfile call among the constructor's steps.
TmpfileStep(k) == 4 + k

\* The exception swallowed, and the session registered and launched.
FailingStepsThenRun(engine, k) ==
    SubSeq(ConstructorSteps(engine), 1, TmpfileStep(k) - 1)
    \o << "raise", "on_finish", "run" >>

\* The constructor when its k-th tmpfile call raises: the steps before
\* the call, and the exception.
FailingConstructorSteps(engine, k) ==
    SubSeq(ConstructorSteps(engine), 1, TmpfileStep(k) - 1) \o << "raise" >>

\* The fields of the object when the k-th tmpfile call raises: the files
\* from the k-th on, the scheme text, the name and the arguments are never
\* set.
PropagateTaintFailing(addr, kind, engineAns, depthAns, n, k) ==
    LET full == PropagateTaint(addr, kind, engineAns, depthAns, n)
    IN  [full EXCEPT
            !.script = IF k <= 1 THEN "" ELSE @,
            !.scheme = IF k <= 2 THEN "" ELSE @,
            !.stdin = IF k <= 3 THEN "" ELSE @,
            !.stdout = "",
            !.schemeText = "",
            !.name = "",
            !.args = BapIdaArgs]

(***************************************************************************)
(* The callback registry, BapTaint._callbacks, and its two class methods.  *)
(***************************************************************************)
EmptyRegistry == [ptr |-> << >>, reg |-> << >>]

\* install_callback that puts the callback at the head of the sequence.
InstallPrepend(registry, callback_fn, ptr_or_reg) ==
    IF ptr_or_reg = << >>
    THEN [ callbacks |->
             [ ptr |-> <<callback_fn>> \o registry.ptr,
               reg |-> <<callback_fn>> \o registry.reg ],
           fatal |-> FALSE ]
    ELSE IF ptr_or_reg = <<"ptr">> \/ ptr_or_reg = <<"reg">>
    THEN [ callbacks |->
             [registry EXCEPT
                 ![ptr_or_reg[1]] = <<callback_fn>> \o registry[ptr_or_reg[1]]],
           fatal |-> FALSE ]
    ELSE [ callbacks |-> registry, fatal |-> TRUE ]

\* install_callback that, given no kind, registers for 'ptr' alone.
InstallNoKindPtrOnly(registry, callback_fn, ptr_or_reg) ==
    IF ptr_or_reg = << >>
    THEN [ callbacks |->
             [registry EXCEPT !.ptr = Append(registry.ptr, callback_fn)],
           fatal |-> FALSE ]
    ELSE IF ptr_or_reg = <<"ptr">> \/ ptr_or_reg = <<"reg">>
    THEN [ callbacks |->
             [registry EXCEPT
                 ![ptr_or_reg[1]] = Append(registry[ptr_or_reg[1]], callback_fn)],
           fatal |-> FALSE ]
    ELSE [ callbacks |-> registry, fatal |-> TRUE ]

\* install_callback whose last branch registers for 'reg' before it fails.
InstallBogusAsReg(registry, callback_fn, ptr_or_reg) ==
    IF ptr_or_reg = << >>
    THEN [ callbacks |->
             [ ptr |-> Append(registry.ptr, callback_fn),
               reg |-> Append(registry.reg, callback_fn) ],
           fatal |-> FALSE ]
    ELSE IF ptr_or_reg = <<"ptr">>
    THEN [ callbacks |->
             [registry EXCEPT !.ptr = Append(registry.ptr, callback_fn)],
           fatal |-> FALSE ]
    ELSE [ callbacks |->
             [registry EXCEPT !.reg = Append(registry.reg, callback_fn)],
           fatal |-> ptr_or_reg # <<"reg">> ]

\* cls.install_callback(callback_fn, ptr_or_reg) on the registry `registry`:
\* the registry it leaves, and whether it ended in idc.Fatal.
install_callback(registry, callback_fn, ptr_or_reg) ==
    IF ptr_or_reg = << >>
    THEN [ callbacks |->
             [ ptr |-> Append(registry.ptr, callback_fn),
               reg |-> Append(registry.reg, callback_fn) ],
           fatal |-> FALSE ]
    ELSE IF ptr_or_reg = <<"ptr">> \/ ptr_or_reg = <<"reg">>
    THEN [ callbacks |->
             [registry EXCEPT
                 ![ptr_or_reg[1]] = Append(registry[ptr_or_reg[1]], callback_fn)],
           fatal |-> FALSE ]
    ELSE [ callbacks |-> registry, fatal |-> TRUE ]

\* One thing the completion handler asks of the host or of a callback.
Event(op, path, exists, cb, ea, kind) ==
    [ op |-> op, path |-> path, exists |-> exists,
      cb |-> cb, data |-> [ea |-> ea, ptr_or_reg |-> kind] ]

ExecScript(path, exists) ==
    Event("IDAPython_ExecScript", path, exists, "", 0, "")
RefreshIdaview == Event("refresh_idaview_anyway", "", FALSE, "", 0, "")
Refresh == Event("Refresh", "", FALSE, "", 0, "")
Call(cb, ea, kind) == Event("callback", "", FALSE, cb, ea, kind)
\* The call of BapTaint._do_callbacks(kind) itself.
Dispatch(kind) == Event("_do_callbacks", "", FALSE, "", 0, kind)

\* The index of the first callback of `list` that raises, or 0 when none
\* does.
FirstRaising(list, raising) ==
    IF \E i \in 1..Len(list) : list[i] \in raising
    THEN CHOOSE i \in 1..Len(list) :
            /\ list[i] \in raising
            /\ \A j \in 1..(i - 1) : list[j] \notin raising
    ELSE 0

\* cls._do_callbacks(ptr_or_reg) with the cursor at ea, when the callbacks
\* of `raising` raise: the calls made, in order, and whether one raised.
do_callbacks(registry, ptr_or_reg, ea, raising) ==
    LET list == registry[ptr_or_reg]
        k == FirstRaising(list, raising)
        n == IF k = 0 THEN Len(list) ELSE k
    IN  [ calls |-> [i \in 1..n |-> Call(list[i], ea, ptr_or_reg)],
          raised |-> k # 0 ]

\* finish that dispatches before it refreshes the view.
FinishDispatchFirst(kind, bap, registry, ea, raising, exists) ==
    LET d == do_callbacks(registry, kind, ea, raising)
    IN  [ events |-> << ExecScript(bap.script, exists), Dispatch(kind) >>
                     \o d.calls
                     \o (IF d.raised THEN << >>
                         ELSE << RefreshIdaview, Refresh >>),
          raised |-> d.raised ]

\* finish that executes the scheme file of the session.
FinishRunsScheme(kind, bap, registry, ea, raising, exists) ==
    LET d == do_callbacks(registry, kind, ea, raising)
    IN  [ events |-> << ExecScript(bap.scheme, exists), RefreshIdaview,
                        Dispatch(kind) >>
                     \o d.calls
                     \o (IF d.raised THEN << >> ELSE << Refresh >>),
          raised |-> d.raised ]

\* self.finish(bap) of the plugin instance of kind `kind` for the session
\* object bap: what it asks for, in order, and whether it raised.
finish(kind, bap, registry, ea, raising, exists) ==
    LET d == do_callbacks(registry, kind, ea, raising)
    IN  [ events |-> << ExecScript(bap.script, exists), RefreshIdaview,
                        Dispatch(kind) >>
                     \o d.calls
                     \o (IF d.raised THEN << >> ELSE << Refresh >>),
          raised |-> d.raised ]

(***************************************************************************)
(* The state.                                                              *)
(***************************************************************************)
VARIABLES
    callbacks,  \* BapTaint._callbacks
    cursor,     \* idc.ScreenEA()
    sessions,   \* the sessions started, in order
    nfiles,     \* the number of temporary files allocated so far
    held,       \* the paths of the temporary files not yet released
    installs,   \* the install_callback calls made, in order
    fatal,      \* idc.Fatal has ended the process
    script_timeout  \* the host's script timeout is enabled

vars == <<callbacks, cursor, sessions, nfiles, held, installs, fatal,
          script_timeout>>

\* The temporary files of a session object.
Paths(bap) == {bap.script, bap.scheme, bap.stdin, bap.stdout}

\* A session that ended while the handler raised keeps its files.
ReleaseUnlessRaised(heldFiles, bap, raised) ==
    IF raised THEN heldFiles ELSE heldFiles \ Paths(bap)

\* BapIda's release of a session's temporary files when the session ends,
\* whether its completion handler returned or raised.
release(heldFiles, bap, raised) == heldFiles \ Paths(bap)

Init ==
    /\ callbacks = EmptyRegistry
    /\ cursor \in Addrs
    /\ sessions = << >>
    /\ nfiles = 0
    /\ held = {}
    /\ installs = << >>
    /\ fatal = FALSE
    /\ script_timeout = TRUE

\* The user moves the cursor.
MoveCursor(a) ==
    /\ ~fatal
    /\ a # cursor
    /\ cursor' = a
    /\ UNCHANGED <<callbacks, sessions, nfiles, held, installs, fatal,
                   script_timeout>>

\* External code calls BapTaint.install_callback(cb, k).
InstallCallback(cb, k) ==
    /\ ~fatal
    /\ Len(installs) < MaxInstalls
    /\ LET r == install_callback(callbacks, cb, k)
       IN  /\ callbacks' = r.callbacks
           /\ fatal' = r.fatal
           /\ installs' = Append(installs, [cb |-> cb, kind |-> k, fatal |-> r.fatal])
    /\ UNCHANGED <<cursor, sessions, nfiles, held, script_timeout>>

\* start that launches the session before it registers the handler.
StartStepsRunFirst(engine) ==
    ConstructorSteps(engine) \o << "run", "on_finish" >>

\* What start does, in the order of its statements.
StartSteps(engine) == ConstructorSteps(engine) \o << "on_finish", "run" >>

\* What the completion of a session adds: the signal, what the handler
\* asks for, and the release of the files.
FinishSteps(events) ==
    << "completion" >> \o [j \in 1..Len(events) |-> events[j].op]
    \o << "release" >>

\* BapTaint(kind).run(arg): start builds the session at the cursor,
\* registers finish as its completion handler and launches it.
Start(kind, engineAns, depthAns, max) ==
    /\ ~fatal
    /\ Len(sessions) < max
    /\ LET tainter == PropagateTaint(cursor, kind, engineAns, depthAns, nfiles)
       IN  /\ sessions' = Append(sessions,
                  [ bap |-> tainter, kind |-> kind, state |-> "running",
                    events |-> << >>, raised |-> FALSE,
                    steps |-> StartSteps(tainter.engine) ])
           /\ held' = held \cup Paths(tainter)
    /\ nfiles' = nfiles + 4
    /\ script_timeout' = FALSE
    /\ UNCHANGED <<callbacks, cursor, installs, fatal>>

\* BapTaint(kind).run(arg) when the k-th tmpfile call of the constructor
\* raises: the exception leaves the constructor and start, and the files
\* allocated before it are released.
StartFails(kind, engineAns, depthAns, k, max) ==
    /\ ~fatal
    /\ Len(sessions) < max
    /\ LET tainter == PropagateTaintFailing(cursor, kind, engineAns, depthAns,
                                            nfiles, k)
       IN  sessions' = Append(sessions,
                  [ bap |-> tainter, kind |-> kind, state |-> "failed",
                    events |-> << >>, raised |-> TRUE,
                    steps |-> FailingConstructorSteps(tainter.engine, k) ])
    /\ nfiles' = nfiles + (k - 1)
    /\ script_timeout' = FALSE
    /\ UNCHANGED <<callbacks, cursor, held, installs, fatal>>

\* The engine of session i signals completion: the completion handler
\* runs, and the session's temporary files are released whether or not the
\* handler raised.
Finish(i, raising, exists) ==
    /\ ~fatal
    /\ sessions[i].state = "running"
    /\ LET s == sessions[i]
           r == finish(s.kind, s.bap, callbacks, cursor, raising, exists)
       IN  /\ sessions' = [sessions EXCEPT
                  ![i] = [s EXCEPT !.state = "finished",
                                   !.events = r.events,
                                   !.raised = r.raised,
                                   !.steps = @ \o FinishSteps(r.events)]]
           /\ held' = release(held, s.bap, r.raised)
    /\ UNCHANGED <<callbacks, cursor, nfiles, installs, fatal,
                   script_timeout>>

\* The session lifecycle: sessions are started at the cursor, which moves,
\* and complete in any order, with or without their generated script.
Next ==
    \/ \E a \in Addrs : MoveCursor(a)
    \/ \E cb \in LifeCB, k \in LifeInstallKinds :
          Len(installs) < MaxLifeInstalls /\ InstallCallback(cb, k)
    \/ \E kind \in Kinds, e \in LifeEngineAnswers, d \in LifeDepthAnswers :
          Start(kind, e, d, MaxSessions)
    \/ \E i \in 1..Len(sessions), raising \in SUBSET LifeCB,
          exists \in ScriptExists :
          Finish(i, raising, exists)

Spec == Init /\ [][Next]_vars

\* The registry: every installation, and sessions of both kinds that
\* dispatch to it.
RegistryNext ==
    \/ \E cb \in CB, k \in InstallKinds : InstallCallback(cb, k)
    \/ \E kind \in Kinds, e \in RegEngineAnswers, d \in RegDepthAnswers :
          Start(kind, e, d, MaxSessions)
    \/ \E i \in 1..Len(sessions), raising \in SUBSET CB,
          exists \in RegScriptExists :
          Finish(i, raising, exists)

SpecRegistry == Init /\ [][RegistryNext]_vars

\* The session builder alone, over every answer to the two prompts.
BuildNext ==
    \/ \E a \in Addrs : MoveCursor(a)
    \/ \E kind \in Kinds, e \in EngineAnswers, d \in DepthAnswers :
          Start(kind, e, d, MaxBuilds)

SpecBuild == Init /\ [][BuildNext]_vars

\* Sessions whose build may fail at any of the four tmpfile calls, beside
\* sessions that are built, launched and complete.
FailureNext ==
    \/ \E cb \in LifeCB, k \in LifeInstallKinds :
          Len(installs) < MaxLifeInstalls /\ InstallCallback(cb, k)
    \/ \E kind \in Kinds, e \in LifeEngineAnswers, d \in LifeDepthAnswers :
          Start(kind, e, d, MaxSessions)
    \/ \E kind \in Kinds, e \in LifeEngineAnswers, d \in LifeDepthAnswers,
          k \in 1..4 :
          StartFails(kind, e, d, k, MaxSessions)
    \/ \E i \in 1..Len(sessions), raising \in SUBSET LifeCB,
          exists \in RegScriptExists :
          Finish(i, raising, exists)

SpecFailure == Init /\ [][FailureNext]_vars

(***************************************************************************)
(* Helpers of the properties.                                              *)
(***************************************************************************)
Sessions == 1..Len(sessions)
Finished(i) == sessions[i].state = "finished"
\* Session i completes in this step.
Finishing(i) == sessions[i].state = "running" /\ sessions'[i].state = "finished"
IsCall(e) == e.op = "callback"
\* The callback invocations among the events, in order.
CallsOf(events) == SelectSeq(events, IsCall)
\* The callbacks invoked, in order.
CalledOf(events) == [j \in 1..Len(CallsOf(events)) |-> CallsOf(events)[j].cb]
HasEvent(events, e) == \E j \in 1..Len(events) : events[j] = e

RECURSIVE CountCalls(_, _)
\* The number of invocations of cb by the sessions of ss.
CountCalls(ss, cb) ==
    IF ss = << >> THEN 0
    ELSE Len(SelectSeq(CallsOf(Head(ss).events), LAMBDA e : e.cb = cb))
         + CountCalls(Tail(ss), cb)

(***************************************************************************)
(* C1.  After a session's completion handler has run, none of the four     *)
(* temporary files of the session is still held; this is so too when the   *)
(* generated script does not exist at completion.                          *)
(***************************************************************************)
C1_NoArtifactHeldAfterFinish ==
    \A i \in Sessions : Finished(i) => Paths(sessions[i].bap) \cap held = {}

\* A session has completed without its generated script, its handler has
\* raised, and another session still holds its files.
C1_Witness ==
    \E i \in Sessions :
        /\ Finished(i)
        /\ sessions[i].events[1] = ExecScript(sessions[i].bap.script, FALSE)
        /\ sessions[i].raised
        /\ held # {}

(***************************************************************************)
(* C2.  A callback that raises during a dispatch does not keep the         *)
(* callbacks registered after it from being invoked: a dispatch invokes    *)
(* every callback of the sequence registered for its kind.                 *)
(***************************************************************************)
C2_EveryCallbackInvoked ==
    [][\A i \in Sessions :
          Finishing(i) =>
             CalledOf(sessions'[i].events) = callbacks[sessions[i].kind]]_vars

(***************************************************************************)
(* C3.  Every session that has run its completion handler has made both    *)
(* refresh requests, the one before the dispatch and the one after it,     *)
(* whatever the callbacks did.                                             *)
(***************************************************************************)
C3_BothRefreshes ==
    \A i \in Sessions :
        Finished(i) =>
            /\ HasEvent(sessions[i].events, RefreshIdaview)
            /\ HasEvent(sessions[i].events, Refresh)

(***************************************************************************)
(* C4.  When the only installation so far is install_callback(cb) with no  *)
(* kind, every dispatch invokes cb exactly once, with a payload that       *)
(* carries the kind of the dispatch: a 'ptr' dispatch and a 'reg' dispatch *)
(* invoke it twice in total.                                               *)
(***************************************************************************)
C4_NoKindInstallOncePerDispatch ==
    [][\A cb \in CB : \A i \in Sessions :
          (/\ installs = << [cb |-> cb, kind |-> << >>, fatal |-> FALSE] >>
           /\ Finishing(i))
          => /\ CallsOf(sessions'[i].events)
                   = << Call(cb, cursor, sessions[i].kind) >>
             /\ CountCalls(sessions', cb) = CountCalls(sessions, cb) + 1]_vars

\* After install_callback(f) alone, a 'ptr' and a 'reg' session have
\* completed and f has been invoked twice, once with each kind.
C4_Witness ==
    /\ installs = << [cb |-> "f", kind |-> << >>, fatal |-> FALSE] >>
    /\ Len(sessions) = 2
    /\ \A i \in Sessions : Finished(i)
    /\ {sessions[i].kind : i \in Sessions} = Kinds
    /\ CountCalls(sessions, "f") = 2
    /\ \A i \in Sessions :
          /\ Len(CallsOf(sessions[i].events)) = 1
          /\ CallsOf(sessions[i].events)[1].data.ptr_or_reg = sessions[i].kind

(***************************************************************************)
(* C5.  install_callback(cb, k) with k neither 'ptr' nor 'reg' nor         *)
(* unspecified fails (idc.Fatal) and leaves both sequences of the registry *)
(* as they were.                                                           *)
(***************************************************************************)
C5_BogusKindLeavesRegistry ==
    [][(/\ Len(installs') = Len(installs) + 1
        /\ installs'[Len(installs')].kind \notin {<< >>, <<"ptr">>, <<"reg">>})
       => /\ callbacks' = callbacks
          /\ installs'[Len(installs')].fatal
          /\ fatal']_vars

\* A call with kind 'bogus' has failed on a registry that held callbacks.
C5_Witness ==
    /\ fatal
    /\ Len(installs) = 2
    /\ installs[2].kind = <<"bogus">>
    /\ callbacks.ptr # << >>
    /\ callbacks.reg = << >>

(***************************************************************************)
(* C6.  The four artifact paths of a session are pairwise distinct, and no *)
(* artifact path of one session is an artifact path of another, however    *)
(* the sessions were built (one after the other, or a second one while the *)
(* first is in flight).                                                    *)
(***************************************************************************)
C6_ArtifactPathsUnique ==
    /\ \A i \in Sessions : Cardinality(Paths(sessions[i].bap)) = 4
    /\ \A i, j \in Sessions :
          i # j => Paths(sessions[i].bap) \cap Paths(sessions[j].bap) = {}

\* Two sessions are in flight at once.
C6_Witness ==
    /\ Len(sessions) = 2
    /\ \A i \in Sessions : sessions[i].state = "running"

(***************************************************************************)
(* C7.  The 'ea' of the payload passed to the callbacks when a session     *)
(* completes is the address the session was started with.                  *)
(***************************************************************************)
C7_PayloadEaIsTarget ==
    \A i \in Sessions :
        \A j \in 1..Len(sessions[i].events) :
            IsCall(sessions[i].events[j])
               => sessions[i].events[j].data.ea = sessions[i].bap.addr

(***************************************************************************)
(* Reading the tokens of an argument sequence.                             *)
(***************************************************************************)
StartsWith(str, prefix) ==
    Len(str) >= Len(prefix) /\ SubSeq(str, 1, Len(prefix)) = prefix
\* What follows a prefix of str.
After(str, prefix) == SubSeq(str, Len(prefix) + 1, Len(str))
HasToken(args, token) == \E j \in 1..Len(args) : args[j] = token
IsDigitOf(c, base) == \E d \in 0..(base - 1) : Digit(d) = c
\* str is a non-empty numeral of the base, in upper-case digits.
IsNumeral(str, base) ==
    /\ Len(str) >= 1
    /\ \A j \in 1..Len(str) : IsDigitOf(SubSeq(str, j, j), base)

RECURSIVE ParseNat(_, _)
\* The number a numeral denotes.
ParseNat(str, base) ==
    LET last == CHOOSE d \in 0..(base - 1) :
                    Digit(d) = SubSeq(str, Len(str), Len(str))
    IN  IF Len(str) = 1 THEN last
        ELSE ParseNat(SubSeq(str, 1, Len(str) - 1), base) * base + last

IsDecimal(str) ==
    IF StartsWith(str, "-") THEN IsNumeral(After(str, "-"), 10)
    ELSE IsNumeral(str, 10)
ParseDecimal(str) ==
    IF StartsWith(str, "-") THEN 0 - ParseNat(After(str, "-"), 10)
    ELSE ParseNat(str, 10)

\* Some token of args is the flag followed by the decimal numeral of n.
HasNumberFlag(args, flag, n) ==
    \E j \in 1..Len(args) :
        /\ StartsWith(args[j], flag)
        /\ IsDecimal(After(args[j], flag))
        /\ ParseDecimal(After(args[j], flag)) = n

(***************************************************************************)
(* C8.  The argument sequence of a Legacy session holds no token that      *)
(* starts with --primus-.  That of a Primus session holds                  *)
(* --run-entry-points= with the function name, the two --primus-limit-     *)
(* flags with the session's depth and loop depth, and a                    *)
(* --primus-lisp-channel-redirect token that binds <stdin> and <stdout> to *)
(* the paths of the session's own stdin and stdout files.                  *)
(***************************************************************************)
C8_EngineArguments ==
    \A i \in Sessions :
        LET b == sessions[i].bap
        IN  /\ b.engine = "legacy" =>
                  \A j \in 1..Len(b.args) : ~StartsWith(b.args[j], "--primus-")
            /\ b.engine = "primus" =>
                  /\ HasToken(b.args,
                         "--run-entry-points=" \o GetFunctionName(b.addr))
                  /\ HasNumberFlag(b.args, "--primus-limit-max-length=", b.depth)
                  /\ HasNumberFlag(b.args, "--primus-limit-max-visited=",
                                   b.loop_depth)
                  /\ HasToken(b.args,
                         "--primus-lisp-channel-redirect=<stdin>:" \o b.stdin
                             \o ",<stdout>:" \o b.stdout)

\* A Primus session built with the depth prompt answered 7.
C8_Witness ==
    \E i \in Sessions :
        /\ sessions[i].bap.askstr = <<"primus">>
        /\ sessions[i].bap.asklong = <<7>>
        /\ HasToken(sessions[i].bap.args, "--primus-limit-max-length=7")
        /\ HasToken(sessions[i].bap.args,
               "--primus-lisp-channel-redirect=<stdin>:tmp3.stdin,<stdout>:tmp4.stdout")

(***************************************************************************)
(* C9.  The argument sequence of every session holds exactly one token     *)
(* that is --taint-ptr or --taint-reg; it is the one of the session's      *)
(* kind, and the token after it is 0x followed by the target address in    *)
(* hexadecimal.                                                            *)
(***************************************************************************)
C9_OneTaintToken ==
    \A i \in Sessions :
        LET b == sessions[i].bap
            at == {j \in 1..Len(b.args) : b.args[j] \in {"--taint-ptr", "--taint-reg"}}
        IN  /\ Cardinality(at) = 1
            /\ \A j \in at :
                  /\ b.kind = "ptr" => b.args[j] = "--taint-ptr"
                  /\ b.kind = "reg" => b.args[j] = "--taint-reg"
                  /\ j < Len(b.args)
                  /\ StartsWith(b.args[j + 1], "0x")
                  /\ IsNumeral(After(b.args[j + 1], "0x"), 16)
                  /\ ParseNat(After(b.args[j + 1], "0x"), 16) = b.addr

\* A 'reg' session at 0x401000.
C9_Witness ==
    \E i \in Sessions :
        /\ sessions[i].bap.kind = "reg"
        /\ sessions[i].bap.addr = 4198400
        /\ sessions[i].bap.args[1] = "--taint-reg"
        /\ sessions[i].bap.args[2] = "0x401000"

(***************************************************************************)
(* C10.  The passes of every session are the four passes taint, X,         *)
(* map-terms, emit-ida-script in this order, X being run for the Primus    *)
(* engine and propagate-taint for the Legacy engine, and the token after   *)
(* --passes is their comma-separated list.                                 *)
(***************************************************************************)
C10_Passes ==
    \A i \in Sessions :
        LET b == sessions[i].bap
            x == b.passes[2]
        IN  /\ Len(b.passes) = 4
            /\ b.passes = <<"taint", x, "map-terms", "emit-ida-script">>
            /\ x \in {"run", "propagate-taint"}
            /\ b.engine = "primus" => x = "run"
            /\ b.engine = "legacy" => x = "propagate-taint"
            /\ \E j \in 1..(Len(b.args) - 1) :
                  /\ b.args[j] = "--passes"
                  /\ x = "run" =>
                        b.args[j + 1] = "taint,run,map-terms,emit-ida-script"
                  /\ x = "propagate-taint" =>
                        b.args[j + 1]
                            = "taint,propagate-taint,map-terms,emit-ida-script"

\* A 'ptr' session built with the engine prompt answered legacy.
C10_Witness ==
    \E i \in Sessions :
        /\ sessions[i].bap.kind = "ptr"
        /\ sessions[i].bap.askstr = <<"legacy">>
        /\ sessions[i].bap.args[4]
              = "taint,propagate-taint,map-terms,emit-ida-script"
        /\ \A j \in 1..Len(sessions[i].bap.args) :
              ~StartsWith(sessions[i].bap.args[j], "--primus-")

(***************************************************************************)
(* C11.  A session built with the engine prompt empty or cancelled and the *)
(* depth prompt cancelled is a Primus session of depth 4096 and loop depth *)
(* 64: its arguments hold --primus-limit-max-length=4096 and               *)
(* --primus-limit-max-visited=64, and for address 0x401000 and kind reg    *)
(* they hold --taint-reg followed by 0x401000.  The only max-visited token *)
(* of any Primus session is --primus-limit-max-visited=64.                 *)
(***************************************************************************)
C11_DefaultsWhenUnanswered ==
    \A i \in Sessions :
        LET b == sessions[i].bap
        IN  /\ (b.askstr \in {<< >>, <<"">>} /\ b.asklong = << >>) =>
                  /\ b.engine = "primus"
                  /\ b.depth = 4096
                  /\ b.loop_depth = 64
                  /\ HasToken(b.args, "--primus-limit-max-length=4096")
                  /\ HasToken(b.args, "--primus-limit-max-visited=64")
                  /\ (b.addr = 4198400 /\ b.kind = "reg") =>
                        \E j \in 1..(Len(b.args) - 1) :
                            /\ b.args[j] = "--taint-reg"
                            /\ b.args[j + 1] = "0x401000"
            /\ b.engine = "primus" =>
                  {b.args[j] : j \in {k \in 1..Len(b.args) :
                        StartsWith(b.args[k], "--primus-limit-max-visited=")}}
                     = {"--primus-limit-max-visited=64"}

\* The session of the scenario: 0x401000, kind reg, the engine prompt left
\* empty and the depth prompt cancelled.
C11_Witness ==
    \E i \in Sessions :
        /\ sessions[i].bap.addr = 4198400
        /\ sessions[i].bap.kind = "reg"
        /\ sessions[i].bap.askstr = <<"">>
        /\ sessions[i].bap.asklong = << >>
        /\ HasToken(sessions[i].bap.args, "--primus-limit-max-length=4096")

(***************************************************************************)
(* C12.  The text written to the scheme file of every session is the four  *)
(* lines ((true) (color gray)), ((is-visited) (color white)),              *)
(* ((has-taints) (color red)), ((taints) (color yellow)), in this order,   *)
(* whatever the address, the kind and the prompt answers.                  *)
(***************************************************************************)
C12_SchemeFile ==
    \A i \in Sessions :
        LET text == sessions[i].bap.schemeText
        IN  /\ text = "((true) (color gray))\n"
                      \o "((is-visited) (color white))\n"
                      \o "((has-taints) (color red))\n"
                      \o "((taints) (color yellow))\n"
            /\ Cardinality({j \in 1..Len(text) : SubSeq(text, j, j) = "\n"}) = 4
            /\ \A k \in Sessions : sessions[k].bap.schemeText = text

\* A Legacy 'ptr' session at 0x1A with the depth prompt answered -1 has
\* written its scheme file.
C12_Witness ==
    \E i \in Sessions :
        /\ sessions[i].bap.engine = "legacy"
        /\ sessions[i].bap.kind = "ptr"
        /\ sessions[i].bap.addr = 26
        /\ sessions[i].bap.asklong = <<-1>>
        /\ StartsWith(sessions[i].bap.schemeText, "((true) (color gray))")

(***************************************************************************)
(* C13.  Once a session has been built, or its build has failed, the       *)
(* host's script timeout is enabled again, as it was before the build.     *)
(***************************************************************************)
C13_ScriptTimeoutRestored == sessions # << >> => script_timeout

(***************************************************************************)
(* C14.  An engine answer that is neither primus nor legacy gives a Primus *)
(* session, a depth answer that is not an integer above 0 gives depth      *)
(* 4096, and the max-length emitted for a Primus session is above 0.       *)
(***************************************************************************)
C14_InvalidAnswersFallBack ==
    \A i \in Sessions :
        LET b == sessions[i].bap
        IN  /\ b.askstr \notin {<<"primus">>, <<"legacy">>} => b.engine = "primus"
            /\ (b.asklong = << >> \/ b.asklong[1] <= 0) => b.depth = 4096
            /\ b.engine = "primus" =>
                  \E n \in 1..4096 :
                      HasNumberFlag(b.args, "--primus-limit-max-length=", n)

(***************************************************************************)
(* Reading the steps of a session.                                         *)
(***************************************************************************)
\* The positions of a step among the steps.
At(steps, name) == {j \in 1..Len(steps) : steps[j] = name}
Occurs(steps, name) == At(steps, name) # {}
HandlerOps ==
    {"IDAPython_ExecScript", "refresh_idaview_anyway", "_do_callbacks",
     "callback", "Refresh"}
IsPrefix(short, long) ==
    Len(short) <= Len(long) /\ SubSeq(long, 1, Len(short)) = short

\* The stage of the session a step belongs to: creating the files (1),
\* writing the scheme (2), closing it (3), building the arguments (4),
\* registering the completion handler (5), launching (6), handling the
\* completion (7), releasing the files (8); 0 for the other steps.
Stage(step) ==
    CASE step \in {"tmpfile py", "tmpfile scm", "tmpfile stdin",
                   "tmpfile stdout"} -> 1
      [] step = "scheme.write" -> 2
      [] step = "scheme.close" -> 3
      [] step \in {"args", "args primus"} -> 4
      [] step = "on_finish" -> 5
      [] step = "run" -> 6
      [] step \in HandlerOps \cup {"completion"} -> 7
      [] step = "release" -> 8
      [] OTHER -> 0
Stages(steps) ==
    SelectSeq([j \in 1..Len(steps) |-> Stage(steps[j])], LAMBDA x : x > 0)
\* The steps of the completion handler among the steps, the signal included.
Handling(steps) ==
    SelectSeq(steps, LAMBDA x : x \in HandlerOps \cup {"completion"})

\* The callbacks the successful installations registered for a kind, in
\* the order of the installations.
InstalledFor(calls, kind) ==
    LET mine == SelectSeq(calls,
                    LAMBDA c : ~c.fatal /\ c.kind \in {<< >>, <<kind>>})
    IN  [j \in 1..Len(mine) |-> mine[j].cb]

(***************************************************************************)
(* C15.  A dispatch for kind K invokes exactly the callbacks installed for *)
(* K, explicitly or with no kind, once per installation and in the order   *)
(* of the installations, each with a payload of kind K.                    *)
(***************************************************************************)
C15_DispatchInvokesInstalled ==
    [][\A i \in Sessions :
          Finishing(i) =>
             /\ CalledOf(sessions'[i].events)
                   = InstalledFor(installs, sessions[i].kind)
             /\ \A j \in 1..Len(CallsOf(sessions'[i].events)) :
                   CallsOf(sessions'[i].events)[j].data.ptr_or_reg
                      = sessions[i].kind]_vars

(***************************************************************************)
(* C16.  A completion handler in which no callback fails asks, in this     *)
(* order and once each, for the execution of the session's generated       *)
(* script, the refresh of the view, the dispatch for the session's kind    *)
(* and the second refresh; a session asks for none of these before its     *)
(* completion signal.                                                      *)
(***************************************************************************)
C16_FourEffectsInOrder ==
    \A i \in Sessions :
        LET s == sessions[i]
            n == Len(s.events)
            h == Handling(s.steps)
        IN  /\ s.state # "finished" =>
                  /\ s.events = << >>
                  /\ h = << >>
            /\ s.state = "finished" =>
                  /\ h[1] = "completion"
                  /\ \A j \in 2..Len(h) : h[j] # "completion"
            /\ (s.state = "finished" /\ ~s.raised) =>
                  /\ n >= 4
                  /\ s.events[1].op = "IDAPython_ExecScript"
                  /\ s.events[1].path = s.bap.script
                  /\ s.events[2] = RefreshIdaview
                  /\ s.events[3] = Dispatch(s.kind)
                  /\ \A j \in 4..(n - 1) :
                        /\ IsCall(s.events[j])
                        /\ s.events[j].data.ptr_or_reg = s.kind
                  /\ s.events[n] = Refresh

\* A handler has run to its end and has invoked a callback.
C16_Witness ==
    \E i \in Sessions :
        /\ Finished(i)
        /\ ~sessions[i].raised
        /\ Len(sessions[i].events) = 5
        /\ IsCall(sessions[i].events[4])

(***************************************************************************)
(* C17.  Within a session, the four files are created and the scheme file  *)
(* is written and closed before the arguments are built; the arguments are *)
(* built and the completion handler is registered before the launch; the   *)
(* completion handler runs only after the launch; and the files are        *)
(* released only after the completion handler has run.                     *)
(***************************************************************************)
C17_SessionOrder ==
    \A i \in Sessions :
        LET s == sessions[i]
            r == Stages(s.steps)
            n == Len(r)
        IN  s.state # "failed" =>
               \* four files, four lines written, the close, the arguments
               /\ n >= 12
               /\ SubSeq(r, 1, 10) = << 1, 1, 1, 1, 2, 2, 2, 2, 3, 4 >>
               \* no step of an earlier stage after a step of a later one,
               \* and one close, one registration and one launch
               /\ \A j \in 1..(n - 1) :
                     /\ r[j] <= r[j + 1]
                     /\ r[j] \in {3, 5, 6} => r[j] < r[j + 1]
               /\ \E j \in 11..n : r[j] = 5
               /\ \E j \in 11..n : r[j] = 6
               /\ s.state = "running" =>
                     /\ r[n] = 6
                     /\ Paths(s.bap) \subseteq held
               /\ s.state = "finished" =>
                     /\ r[n] = 8
                     /\ r[n - 1] = 7

\* A Primus session has gone through its whole life.
C17_Witness ==
    \E i \in Sessions :
        /\ Finished(i)
        /\ Occurs(sessions[i].steps, "args primus")
        /\ Occurs(sessions[i].steps, "callback")
        /\ sessions[i].steps[Len(sessions[i].steps)] = "release"

(***************************************************************************)
(* C18.  When a tmpfile call fails while a session is built, the exception *)
(* leaves start: the session is never registered for completion nor        *)
(* launched, no completion handler ever runs for it, and the registry is   *)
(* as it was.                                                              *)
(***************************************************************************)
C18_FailedBuildNeverLaunched ==
    [][\A i \in 1..Len(sessions') :
          sessions'[i].state = "failed" =>
             /\ sessions'[i].raised
             /\ sessions'[i].steps[Len(sessions'[i].steps)] = "raise"
             /\ ~Occurs(sessions'[i].steps, "on_finish")
             /\ ~Occurs(sessions'[i].steps, "run")
             /\ ~Occurs(sessions'[i].steps, "completion")
             /\ sessions'[i].events = << >>
             /\ i > Len(sessions) => callbacks' = callbacks
             /\ i <= Len(sessions) =>
                   (sessions[i].state = "failed" /\ sessions'[i] = sessions[i])]_vars

\* The third tmpfile call of a build has failed on a registry that holds a
\* callback, beside a session that has completed.
C18_Witness ==
    /\ callbacks.ptr # << >>
    /\ \E i \in Sessions :
          /\ sessions[i].state = "failed"
          /\ sessions[i].bap.scheme # ""
          /\ sessions[i].bap.stdin = ""
    /\ \E i \in Sessions : Finished(i)

(***************************************************************************)
(* C19.  The registry changes only in a call of install_callback, and then *)
(* each of its two sequences keeps what it held, in the same order, in     *)
(* front of what is appended: starting a session and running a completion  *)
(* handler leave it as it is.                                              *)
(***************************************************************************)
C19_RegistryOnlyGrowsByInstall ==
    [][/\ callbacks' # callbacks =>
             /\ Len(installs') = Len(installs) + 1
             /\ sessions' = sessions
       /\ \A kind \in Kinds : IsPrefix(callbacks[kind], callbacks'[kind])]_vars

\* Two installations for 'ptr' have been made around a completed session.
C19_Witness ==
    /\ Len(callbacks.ptr) = 2
    /\ callbacks.ptr[1] # callbacks.ptr[2]
    /\ \E i \in Sessions :
          /\ Finished(i)
          /\ sessions[i].kind = "ptr"
          /\ Len(CallsOf(sessions[i].events)) = 1

(***************************************************************************)
(* C20.  With several sessions in flight that complete in any order, the   *)
(* completion handler of a session executes the path that follows          *)
(* --emit-ida-script-file in the session's own arguments, which is the     *)
(* script of no other session, and dispatches for the kind of the plugin   *)
(* instance that started the session.                                      *)
(***************************************************************************)
C20_OwnScriptOwnKind ==
    \A i \in Sessions :
        Finished(i) =>
            LET s == sessions[i]
                execs == SelectSeq(s.events,
                            LAMBDA e : e.op = "IDAPython_ExecScript")
                disps == SelectSeq(s.events, LAMBDA e : e.op = "_do_callbacks")
            IN  /\ Len(execs) = 1
                /\ \E j \in 1..(Len(s.bap.args) - 1) :
                      /\ s.bap.args[j] = "--emit-ida-script-file"
                      /\ s.bap.args[j + 1] = execs[1].path
                /\ \A k \in Sessions :
                      k # i => execs[1].path \notin Paths(sessions[k].bap)
                /\ Len(disps) = 1
                /\ disps[1].data.ptr_or_reg = s.kind
                /\ HasToken(s.bap.args, "--taint-" \o disps[1].data.ptr_or_reg)

\* The second of two sessions of different kinds has completed while the
\* first is still in flight.
C20_Witness ==
    /\ Len(sessions) = 2
    /\ sessions[1].state = "running"
    /\ sessions[2].state = "finished"
    /\ sessions[1].kind # sessions[2].kind

=============================================================================
